---- MODULE Spec2Model ----
(***************************************************************************)
(* Vehicle-speed: the tracking-and-measurement pipeline.                   *)
(*   VehicleTracker   (src/modules/vehicle_tracking.py)                    *)
(*   VehicleCounter   (src/modules/vehicle_counting.py)                    *)
(*   SpeedCalculator  (src/modules/speed_calculation.py)                   *)
(*   DistanceCalculator (src/modules/distance_calculation.py)              *)
(* Real numbers that the code computes as floats are kept as exact         *)
(* fractions <<numerator, denominator>> of integers.                       *)
(***************************************************************************)
EXTENDS Integers, Sequences, FiniteSets, TLC

VARIABLES
    \* VehicleTracker
    vehicles,           \* self.vehicles: id -> [bbox, disappeared, crossed_line, first_seen]
    next_vehicle_id,    \* self.next_vehicle_id
    crossed_vehicles,   \* self.crossed_vehicles
    max_disappeared,    \* self.max_disappeared (constructor argument)
    \* VehicleCounter
    vehicle_count,      \* self.vehicle_count
    counted_vehicles,   \* self.counted_vehicles
    count_history,      \* self.count_history: sequence of <<time, count>>
    last_update_time,   \* self.last_update_time
    \* SpeedCalculator and its DistanceCalculator
    vehicle_data,       \* self.vehicle_data: id -> [positions, times, speeds]
    speeds,             \* self.speeds: id -> smoothed speed in km/h
    last_frame_time,    \* self.last_frame_time, None before the first update
    fps,                \* self.fps
    pixels_per_meter,   \* self.distance_calculator.pixels_per_meter, None until calibrated
    \* the caller (process_frame)
    pc,                 \* which component the frame is handed to next
    clock,              \* frame_time of the current frame
    frame_count,        \* self.frame_count
    \* history of the last call, for stating the properties
    op,                 \* the last operation that ran
    lastDets,           \* bounding_boxes of the last VehicleTracker.update
    lastNext,           \* next_vehicle_id before the last VehicleTracker.update
    lastUsed,           \* used_vehicles of the last VehicleTracker.update
    registered,         \* every id that was ever a key of self.vehicles
    alwaysMatched,      \* ids matched in every update since their registration
    everCrossed,        \* ids seen with crossed_line = True after some update
    everPastLine,       \* live ids whose box was at or past the line at some check
    exc,                \* the exception the last call raised, or "none"
    iou,                \* a direct call of _calculate_overlap: its arguments and result
    call                \* the arguments of the last call of a component on its own

trackerVars == <<vehicles, next_vehicle_id, crossed_vehicles, max_disappeared>>
counterVars == <<vehicle_count, counted_vehicles, count_history, last_update_time>>
speedVars == <<vehicle_data, speeds, last_frame_time, fps, pixels_per_meter>>
trackerHistory == <<lastDets, lastNext, lastUsed, registered, alwaysMatched, everCrossed,
                    everPastLine>>
historyVars == <<op, trackerHistory, exc>>
vars == <<trackerVars, counterVars, speedVars, pc, clock, frame_count, historyVars, iou,
          call>>

----------------------------------------------------------------------------
(* Bounds of the model *)

MaxIds == 3          \* identities registered in one run
MaxDets == 2         \* detections in one frame
MaxCoord == 2        \* x, y, w, h of the boxes _calculate_overlap is called on directly

(* the timestamps process_frame is called with, in non-decreasing order *)
FrameTimes == {0, 1}

(* the values max_disappeared is constructed with *)
MaxDisappearedArgs == {1}

(* SpeedCalculator.update on its own: the ids and boxes of its mappings, the *)
(* frame numbers it is called with and the samples kept for one id           *)
MaxSamples == 2
FrameNumbers == {0, 1, 2}
SpeedIds == {0, 1}
FpsArgs == {<<30, 1>>}
PixelsPerMeterArgs == {<<>>, <<100, 1>>}
SpeedBoxes == {<<6, 0, 3, 3>>, <<0, 8, 3, 3>>}

(* Boxes (x, y, w, h) the detector hands over: cv2.boundingRect of a contour *)
(* of area > min_area, so w >= 1 and h >= 1.                                 *)
BoxA == <<0, 0, 1, 6>>
BoxB == <<0, 3, 1, 7>>
BoxC == <<0, 2, 1, 6>>
Boxes == {BoxA, BoxB, BoxC}

LineYs == {8, 30}

RECURSIVE SeqsUpTo(_, _)
SeqsUpTo(S, n) ==
    IF n = 0 THEN {<<>>}
    ELSE LET shorter == SeqsUpTo(S, n - 1)
         IN  shorter \cup {Append(s, b) : s \in {t \in shorter : Len(t) = n - 1}, b \in S}

DetLists == SeqsUpTo(Boxes, MaxDets)

----------------------------------------------------------------------------
(* Helpers *)

Max(a, b) == IF a > b THEN a ELSE b
Min(a, b) == IF a < b THEN a ELSE b
MinOf(S) == CHOOSE m \in S : \A n \in S : m <= n

(* fractions n/d with d > 0 *)
Frac(n, d) == <<n, d>>
FracGT(p, q) == p[1] * q[2] > q[1] * p[2]
FracEQ(p, q) == p[1] * q[2] = q[1] * p[2]

Abs(n) == IF n < 0 THEN -n ELSE n

RECURSIVE GCD(_, _)
GCD(a, b) == IF b = 0 THEN a ELSE GCD(b, a % b)

(* the fraction n/d in lowest terms, d > 0 *)
Norm(n, d) ==
    LET g == GCD(Abs(n), Abs(d))
        sign == IF d < 0 THEN -1 ELSE 1
    IN  Frac(sign * (n \div g), sign * (d \div g))

FracAdd(p, q) == Norm(p[1] * q[2] + q[1] * p[2], p[2] * q[2])
FracSub(p, q) == Norm(p[1] * q[2] - q[1] * p[2], p[2] * q[2])
FracMul(p, q) == Norm(p[1] * q[1], p[2] * q[2])
FracDiv(p, q) == Norm(p[1] * q[2], p[2] * q[1])

(* np.sqrt of a perfect square *)
Sqrt(n) == CHOOSE r \in 0..n : r * r = n

(* Python's None for a field that otherwise holds a fraction *)
None == <<>>

Restrict(f, S) == [k \in S |-> f[k]]

----------------------------------------------------------------------------
(* VehicleTracker *)

(* min_overlap_ratio = 0.3 *)
MinOverlapNum == 3
MinOverlapDen == 10
min_overlap_ratio == Frac(MinOverlapNum, MinOverlapDen)

(* intersection_area / float(union_area) raises ZeroDivisionError when      *)
(* union_area is 0: a fraction with denominator 0 stands for the raise.     *)
Raises(r) == r[2] = 0
ZeroDivisionError == "ZeroDivisionError"

calculate_overlap(bbox1, bbox2) ==
    LET x1 == bbox1[1]  y1 == bbox1[2]  w1 == bbox1[3]  h1 == bbox1[4]
        x2 == bbox2[1]  y2 == bbox2[2]  w2 == bbox2[3]  h2 == bbox2[4]
        x_left == Max(x1, x2)
        y_top == Max(y1, y2)
        x_right == Min(x1 + w1, x2 + w2)
        y_bottom == Min(y1 + h1, y2 + h2)
        intersection_area == (x_right - x_left) * (y_bottom - y_top)
        bbox1_area == w1 * h1
        bbox2_area == w2 * h2
        union_area == bbox1_area + bbox2_area - intersection_area
    IN  IF x_right < x_left \/ y_bottom < y_top THEN Frac(0, 1)
        ELSE Frac(intersection_area, union_area)

(* The tracker's fields as one record, so that the steps of update compose. *)
TrackerState == [vehicles |-> vehicles, next_vehicle_id |-> next_vehicle_id,
                 crossed_vehicles |-> crossed_vehicles]

(* a variant that compares with vehicle_bottom > detection_line_y *)
check_line_crossing_strict(T, vehicle_id, bbox, detection_line_y) ==
    LET vehicle_bottom == bbox[2] + bbox[4]
    IN  IF vehicle_bottom > detection_line_y /\ ~T.vehicles[vehicle_id].crossed_line
        THEN [T EXCEPT !.vehicles[vehicle_id].crossed_line = TRUE,
                       !.crossed_vehicles = @ \cup {vehicle_id}]
        ELSE T

(* a variant that recomputes the flag from the current box on every check *)
check_line_crossing_recomputed(T, vehicle_id, bbox, detection_line_y) ==
    LET vehicle_bottom == bbox[2] + bbox[4]
    IN  IF vehicle_bottom >= detection_line_y
        THEN [T EXCEPT !.vehicles[vehicle_id].crossed_line = TRUE,
                       !.crossed_vehicles = @ \cup {vehicle_id}]
        ELSE [T EXCEPT !.vehicles[vehicle_id].crossed_line = FALSE]

check_line_crossing(T, vehicle_id, bbox, detection_line_y) ==
    LET vehicle_bottom == bbox[2] + bbox[4]
    IN  IF vehicle_bottom >= detection_line_y /\ ~T.vehicles[vehicle_id].crossed_line
        THEN [T EXCEPT !.vehicles[vehicle_id].crossed_line = TRUE,
                       !.crossed_vehicles = @ \cup {vehicle_id}]
        ELSE T

(* a variant that takes len(self.vehicles) as the new id *)
register_len_id(T, bbox, detection_line_y) ==
    LET id == Cardinality(DOMAIN T.vehicles)
        fresh == [bbox |-> bbox, disappeared |-> 0, crossed_line |-> FALSE,
                  first_seen |-> [bbox |-> bbox, crossed_line |-> FALSE]]
        added == [T EXCEPT !.vehicles =
                     [k \in DOMAIN T.vehicles \cup {id} |->
                         IF k = id THEN fresh ELSE T.vehicles[k]]]
        checked == check_line_crossing(added, id, bbox, detection_line_y)
    IN  [checked EXCEPT !.next_vehicle_id = @ + 1]

register(T, bbox, detection_line_y) ==
    LET id == T.next_vehicle_id
        fresh == [bbox |-> bbox, disappeared |-> 0, crossed_line |-> FALSE,
                  first_seen |-> [bbox |-> bbox, crossed_line |-> FALSE]]
        added == [T EXCEPT !.vehicles =
                     [k \in DOMAIN T.vehicles \cup {id} |->
                         IF k = id THEN fresh ELSE T.vehicles[k]]]
        checked == check_line_crossing(added, id, bbox, detection_line_y)
    IN  [checked EXCEPT !.next_vehicle_id = @ + 1]

(* a variant that deletes at disappeared >= max_disappeared *)
MarkDisappeared_at_threshold(T, missed) ==
    LET aged == [k \in DOMAIN T.vehicles |->
                    IF k \in missed
                    THEN [T.vehicles[k] EXCEPT !.disappeared = @ + 1]
                    ELSE T.vehicles[k]]
        kept == {k \in DOMAIN aged :
                    ~(k \in missed /\ aged[k].disappeared >= max_disappeared)}
    IN  [T EXCEPT !.vehicles = Restrict(aged, kept)]

(* a variant that counts a missed frame for matched vehicles too *)
MarkDisappeared_all(T, missed) ==
    LET aged == [k \in DOMAIN T.vehicles |->
                    [T.vehicles[k] EXCEPT !.disappeared = @ + 1]]
        kept == {k \in DOMAIN aged : ~(aged[k].disappeared > max_disappeared)}
    IN  [T EXCEPT !.vehicles = Restrict(aged, kept)]

(* a variant that also forgets the crossing of a deleted vehicle *)
MarkDisappeared_forget_crossing(T, missed) ==
    LET aged == [k \in DOMAIN T.vehicles |->
                    IF k \in missed
                    THEN [T.vehicles[k] EXCEPT !.disappeared = @ + 1]
                    ELSE T.vehicles[k]]
        kept == {k \in DOMAIN aged :
                    ~(k \in missed /\ aged[k].disappeared > max_disappeared)}
    IN  [T EXCEPT !.vehicles = Restrict(aged, kept),
                  !.crossed_vehicles = @ \cap kept]

(* lines 72-77 and 122-128: count a missed frame for each id of `missed`, *)
(* delete the ones now over max_disappeared                               *)
MarkDisappeared(T, missed) ==
    LET aged == [k \in DOMAIN T.vehicles |->
                    IF k \in missed
                    THEN [T.vehicles[k] EXCEPT !.disappeared = @ + 1]
                    ELSE T.vehicles[k]]
        kept == {k \in DOMAIN aged :
                    ~(k \in missed /\ aged[k].disappeared > max_disappeared)}
    IN  [T EXCEPT !.vehicles = Restrict(aged, kept)]

(* a variant that replaces the best so far on overlap >= max_overlap *)
RECURSIVE BestMatch_last_of_ties(_, _, _, _, _, _)
BestMatch_last_of_ties(vehicle_bbox, bounding_boxes, used_bboxes, j, max_overlap, max_overlap_idx) ==
    IF j > Len(bounding_boxes) THEN [idx |-> max_overlap_idx, exc |-> "none"]
    ELSE IF j \in used_bboxes
    THEN BestMatch_last_of_ties(vehicle_bbox, bounding_boxes, used_bboxes, j + 1,
                                max_overlap, max_overlap_idx)
    ELSE LET overlap == calculate_overlap(vehicle_bbox, bounding_boxes[j])
         IN  IF Raises(overlap)
             THEN [idx |-> 0, exc |-> ZeroDivisionError]
             ELSE IF ~FracGT(max_overlap, overlap) /\ FracGT(overlap, min_overlap_ratio)
             THEN BestMatch_last_of_ties(vehicle_bbox, bounding_boxes, used_bboxes, j + 1,
                                         overlap, j)
             ELSE BestMatch_last_of_ties(vehicle_bbox, bounding_boxes, used_bboxes, j + 1,
                                         max_overlap, max_overlap_idx)

(* a variant that accepts an overlap equal to min_overlap_ratio *)
RECURSIVE BestMatch_at_minimum(_, _, _, _, _, _)
BestMatch_at_minimum(vehicle_bbox, bounding_boxes, used_bboxes, j, max_overlap, max_overlap_idx) ==
    IF j > Len(bounding_boxes) THEN [idx |-> max_overlap_idx, exc |-> "none"]
    ELSE IF j \in used_bboxes
    THEN BestMatch_at_minimum(vehicle_bbox, bounding_boxes, used_bboxes, j + 1,
                              max_overlap, max_overlap_idx)
    ELSE LET overlap == calculate_overlap(vehicle_bbox, bounding_boxes[j])
         IN  IF Raises(overlap)
             THEN [idx |-> 0, exc |-> ZeroDivisionError]
             ELSE IF FracGT(overlap, max_overlap) /\ ~FracGT(min_overlap_ratio, overlap)
             THEN BestMatch_at_minimum(vehicle_bbox, bounding_boxes, used_bboxes, j + 1,
                                       overlap, j)
             ELSE BestMatch_at_minimum(vehicle_bbox, bounding_boxes, used_bboxes, j + 1,
                                       max_overlap, max_overlap_idx)

(* lines 98-109: the best not-yet-claimed detection for vehicle_bbox, from *)
(* index j on; 0 stands for the code's -1                                  *)
RECURSIVE BestMatch(_, _, _, _, _, _)
BestMatch(vehicle_bbox, bounding_boxes, used_bboxes, j, max_overlap, max_overlap_idx) ==
    IF j > Len(bounding_boxes) THEN [idx |-> max_overlap_idx, exc |-> "none"]
    ELSE IF j \in used_bboxes
    THEN BestMatch(vehicle_bbox, bounding_boxes, used_bboxes, j + 1,
                   max_overlap, max_overlap_idx)
    ELSE LET overlap == calculate_overlap(vehicle_bbox, bounding_boxes[j])
         IN  IF Raises(overlap)
             THEN [idx |-> 0, exc |-> ZeroDivisionError]
             ELSE IF FracGT(overlap, max_overlap) /\ FracGT(overlap, min_overlap_ratio)
             THEN BestMatch(vehicle_bbox, bounding_boxes, used_bboxes, j + 1, overlap, j)
             ELSE BestMatch(vehicle_bbox, bounding_boxes, used_bboxes, j + 1,
                            max_overlap, max_overlap_idx)

(* a variant that serves the existing vehicles in descending id order *)
RECURSIVE MatchLoop_descending(_, _, _, _, _, _, _)
MatchLoop_descending(T, todo, vehicle_bboxes, bounding_boxes, detection_line_y, used_vehicles, used_bboxes) ==
    IF todo = {}
    THEN [T |-> T, used_vehicles |-> used_vehicles, used_bboxes |-> used_bboxes,
          exc |-> "none"]
    ELSE LET vehicle_id == CHOOSE x \in todo : \A y \in todo : y <= x
             best == BestMatch(vehicle_bboxes[vehicle_id], bounding_boxes,
                               used_bboxes, 1, Frac(0, 1), 0)
         IN  IF best.exc # "none"
             THEN [T |-> T, used_vehicles |-> used_vehicles,
                   used_bboxes |-> used_bboxes, exc |-> best.exc]
             ELSE IF best.idx # 0
             THEN LET box == bounding_boxes[best.idx]
                      T1 == [T EXCEPT !.vehicles[vehicle_id].bbox = box,
                                      !.vehicles[vehicle_id].disappeared = 0]
                      T2 == check_line_crossing(T1, vehicle_id, box, detection_line_y)
                  IN  MatchLoop_descending(T2, todo \ {vehicle_id}, vehicle_bboxes,
                                           bounding_boxes, detection_line_y,
                                           used_vehicles \cup {vehicle_id},
                                           used_bboxes \cup {best.idx})
             ELSE MatchLoop_descending(T, todo \ {vehicle_id}, vehicle_bboxes,
                                       bounding_boxes, detection_line_y, used_vehicles,
                                       used_bboxes)

(* lines 95-119: existing vehicles in dict order (ascending id) *)
RECURSIVE MatchLoop(_, _, _, _, _, _, _)
MatchLoop(T, todo, vehicle_bboxes, bounding_boxes, detection_line_y, used_vehicles, used_bboxes) ==
    IF todo = {}
    THEN [T |-> T, used_vehicles |-> used_vehicles, used_bboxes |-> used_bboxes,
          exc |-> "none"]
    ELSE LET vehicle_id == MinOf(todo)
             best == BestMatch(vehicle_bboxes[vehicle_id], bounding_boxes,
                               used_bboxes, 1, Frac(0, 1), 0)
         IN  IF best.exc # "none"
             THEN [T |-> T, used_vehicles |-> used_vehicles,
                   used_bboxes |-> used_bboxes, exc |-> best.exc]
             ELSE IF best.idx # 0
             THEN LET box == bounding_boxes[best.idx]
                      T1 == [T EXCEPT !.vehicles[vehicle_id].bbox = box,
                                      !.vehicles[vehicle_id].disappeared = 0]
                      T2 == check_line_crossing(T1, vehicle_id, box, detection_line_y)
                  IN  MatchLoop(T2, todo \ {vehicle_id}, vehicle_bboxes, bounding_boxes,
                                detection_line_y, used_vehicles \cup {vehicle_id},
                                used_bboxes \cup {best.idx})
             ELSE MatchLoop(T, todo \ {vehicle_id}, vehicle_bboxes, bounding_boxes,
                            detection_line_y, used_vehicles, used_bboxes)

(* a variant that registers every detection, claimed or not *)
RECURSIVE RegisterLoop_all(_, _, _, _, _)
RegisterLoop_all(T, bounding_boxes, detection_line_y, used_bboxes, i) ==
    IF i > Len(bounding_boxes) THEN T
    ELSE RegisterLoop_all(register(T, bounding_boxes[i], detection_line_y),
                          bounding_boxes, detection_line_y, used_bboxes, i + 1)

(* lines 83-84 and 131-133: register the detections not in used_bboxes, in order *)
RECURSIVE RegisterLoop(_, _, _, _, _)
RegisterLoop(T, bounding_boxes, detection_line_y, used_bboxes, i) ==
    IF i > Len(bounding_boxes) THEN T
    ELSE IF i \in used_bboxes
    THEN RegisterLoop(T, bounding_boxes, detection_line_y, used_bboxes, i + 1)
    ELSE RegisterLoop(register(T, bounding_boxes[i], detection_line_y),
                      bounding_boxes, detection_line_y, used_bboxes, i + 1)

(* a variant that returns at once on an empty detection list *)
update_skips_empty_frame(T, bounding_boxes, detection_line_y) ==
    IF Len(bounding_boxes) = 0
    THEN [T |-> T, used_vehicles |-> {}, exc |-> "none"]
    ELSE IF DOMAIN T.vehicles = {}
    THEN [T |-> RegisterLoop(T, bounding_boxes, detection_line_y, {}, 1),
          used_vehicles |-> {}, exc |-> "none"]
    ELSE LET vehicle_ids == DOMAIN T.vehicles
             vehicle_bboxes == [k \in vehicle_ids |-> T.vehicles[k].bbox]
             m == MatchLoop(T, vehicle_ids, vehicle_bboxes, bounding_boxes,
                            detection_line_y, {}, {})
         IN  IF m.exc # "none"
             THEN [T |-> m.T, used_vehicles |-> m.used_vehicles, exc |-> m.exc]
             ELSE LET aged == MarkDisappeared(m.T, vehicle_ids \ m.used_vehicles)
                  IN  [T |-> RegisterLoop(aged, bounding_boxes, detection_line_y,
                                          m.used_bboxes, 1),
                       used_vehicles |-> m.used_vehicles, exc |-> "none"]

(* VehicleTracker.update: the tracker after the call, the ids it matched and *)
(* the exception it raised                                                   *)
update(T, bounding_boxes, detection_line_y) ==
    IF Len(bounding_boxes) = 0
    THEN [T |-> MarkDisappeared(T, DOMAIN T.vehicles), used_vehicles |-> {},
          exc |-> "none"]
    ELSE IF DOMAIN T.vehicles = {}
    THEN [T |-> RegisterLoop(T, bounding_boxes, detection_line_y, {}, 1),
          used_vehicles |-> {}, exc |-> "none"]
    ELSE LET vehicle_ids == DOMAIN T.vehicles
             vehicle_bboxes == [k \in vehicle_ids |-> T.vehicles[k].bbox]
             m == MatchLoop(T, vehicle_ids, vehicle_bboxes, bounding_boxes,
                            detection_line_y, {}, {})
         IN  IF m.exc # "none"
             THEN [T |-> m.T, used_vehicles |-> m.used_vehicles, exc |-> m.exc]
             ELSE LET aged == MarkDisappeared(m.T, vehicle_ids \ m.used_vehicles)
                  IN  [T |-> RegisterLoop(aged, bounding_boxes, detection_line_y,
                                          m.used_bboxes, 1),
                       used_vehicles |-> m.used_vehicles, exc |-> "none"]

get_crossed_count == Cardinality(crossed_vehicles)

get_active_vehicles == Restrict(vehicles, {k \in DOMAIN vehicles : vehicles[k].disappeared = 0})

----------------------------------------------------------------------------
(* VehicleCounter *)

CounterState == [vehicle_count |-> vehicle_count, counted_vehicles |-> counted_vehicles,
                 count_history |-> count_history, last_update_time |-> last_update_time]

(* vehicle_data.get('crossed_line', False) *)
GetCrossedLine(vehicle) ==
    IF "crossed_line" \in DOMAIN vehicle THEN vehicle.crossed_line ELSE FALSE

(* a variant without the counted_vehicles membership test *)
RECURSIVE CountLoop_no_membership_test(_, _, _, _)
CountLoop_no_membership_test(C, vs, todo, current_time) ==
    IF todo = {} THEN C
    ELSE LET vehicle_id == MinOf(todo)
             C1 == IF GetCrossedLine(vs[vehicle_id])
                   THEN [C EXCEPT !.counted_vehicles = @ \cup {vehicle_id},
                                  !.vehicle_count = @ + 1,
                                  !.count_history =
                                      Append(@, <<current_time, C.vehicle_count + 1>>)]
                   ELSE C
         IN  CountLoop_no_membership_test(C1, vs, todo \ {vehicle_id}, current_time)

(* lines 43-51, the items of the mapping in dict order *)
RECURSIVE CountLoop(_, _, _, _)
CountLoop(C, vs, todo, current_time) ==
    IF todo = {} THEN C
    ELSE LET vehicle_id == MinOf(todo)
             C1 == IF vehicle_id \notin C.counted_vehicles /\ GetCrossedLine(vs[vehicle_id])
                   THEN [C EXCEPT !.counted_vehicles = @ \cup {vehicle_id},
                                  !.vehicle_count = @ + 1,
                                  !.count_history =
                                      Append(@, <<current_time, C.vehicle_count + 1>>)]
                   ELSE C
         IN  CountLoop(C1, vs, todo \ {vehicle_id}, current_time)

counter_update(C, vs, current_time) ==
    [CountLoop(C, vs, DOMAIN vs, current_time) EXCEPT !.last_update_time = current_time]

(* a variant that clears crossed_line in the caller's dict once it has counted *)
counter_update_shared_clearing(C, vs, current_time) ==
    [C |-> counter_update(C, vs, current_time),
     vehicles |-> [k \in DOMAIN vs |-> [vs[k] EXCEPT !.crossed_line = FALSE]]]

(* VehicleCounter.update called on the tracker's own dict (tracker.update    *)
(* returns self.vehicles): the counter and that dict after the call; the    *)
(* method reads vehicles.items() and vehicle_data.get and assigns to neither *)
counter_update_shared(C, vs, current_time) ==
    [C |-> counter_update(C, vs, current_time), vehicles |-> vs]

(* a / b for floats: a fraction with denominator 0 stands for the           *)
(* ZeroDivisionError of a division by 0                                     *)
Div(p, q) == IF q[1] = 0 THEN Frac(1, 0) ELSE FracDiv(p, q)

(* ... * 60: per second to per minute *)
PerMinute == 60

(* the entries (t, c) of count_history with current_time - t <= time_window *)
RecentCounts(C, time_window, current_time) ==
    SelectSeq(C.count_history, LAMBDA e : current_time - e[1] <= time_window)

(* a variant without the test of time_window > 0 *)
get_count_rate_unguarded(C, time_window, current_time) ==
    LET recent_counts == RecentCounts(C, time_window, current_time)
        time_diff == recent_counts[Len(recent_counts)][1] - recent_counts[1][1]
        count_diff == recent_counts[Len(recent_counts)][2] - recent_counts[1][2]
    IN  IF Len(recent_counts) = 0 THEN Frac(0, 1)
        ELSE IF Len(recent_counts) >= 2 /\ time_diff > 0
        THEN FracMul(Div(Frac(count_diff, 1), Frac(time_diff, 1)), Frac(PerMinute, 1))
        ELSE FracMul(Div(Frac(C.vehicle_count, 1), Frac(time_window, 1)),
                     Frac(PerMinute, 1))

(* a variant without the early return on an empty window *)
get_count_rate_no_early_return(C, time_window, current_time) ==
    LET recent_counts == RecentCounts(C, time_window, current_time)
        time_diff == recent_counts[Len(recent_counts)][1] - recent_counts[1][1]
        count_diff == recent_counts[Len(recent_counts)][2] - recent_counts[1][2]
    IN  IF Len(recent_counts) >= 2 /\ time_diff > 0
        THEN FracMul(Div(Frac(count_diff, 1), Frac(time_diff, 1)), Frac(PerMinute, 1))
        ELSE IF time_window > 0
        THEN FracMul(Div(Frac(C.vehicle_count, 1), Frac(time_window, 1)),
                     Frac(PerMinute, 1))
        ELSE Frac(0, 1)

(* VehicleCounter.get_count_rate; current_time is the time.time() it reads *)
get_count_rate(C, time_window, current_time) ==
    LET recent_counts == RecentCounts(C, time_window, current_time)
        time_diff == recent_counts[Len(recent_counts)][1] - recent_counts[1][1]
        count_diff == recent_counts[Len(recent_counts)][2] - recent_counts[1][2]
    IN  IF Len(recent_counts) = 0 THEN Frac(0, 1)
        ELSE IF Len(recent_counts) >= 2 /\ time_diff > 0
        THEN FracMul(Div(Frac(count_diff, 1), Frac(time_diff, 1)), Frac(PerMinute, 1))
        ELSE IF time_window > 0
        THEN FracMul(Div(Frac(C.vehicle_count, 1), Frac(time_window, 1)),
                     Frac(PerMinute, 1))
        ELSE Frac(0, 1)

(* a variant that leaves out self.count_history.clear() *)
counter_reset_keep_history(C, now) ==
    [vehicle_count |-> 0, counted_vehicles |-> {}, count_history |-> C.count_history,
     last_update_time |-> now]

(* a variant that leaves out self.counted_vehicles.clear() *)
counter_reset_keep_counted(C, now) ==
    [vehicle_count |-> 0, counted_vehicles |-> C.counted_vehicles, count_history |-> <<>>,
     last_update_time |-> now]

(* VehicleCounter.reset; now is the time.time() it reads *)
counter_reset(C, now) ==
    [vehicle_count |-> 0, counted_vehicles |-> {}, count_history |-> <<>>,
     last_update_time |-> now]

----------------------------------------------------------------------------
(* DistanceCalculator *)

ValueError == "ValueError"

(* a variant that falls back to one pixel per meter when not calibrated *)
pixel_to_meter_default(pixel_distance) ==
    IF pixels_per_meter = None THEN pixel_distance
    ELSE FracDiv(pixel_distance, pixels_per_meter)

(* pixel_distance / self.pixels_per_meter; None stands for the ValueError *)
pixel_to_meter(pixel_distance) ==
    IF pixels_per_meter = None THEN None
    ELSE FracDiv(pixel_distance, pixels_per_meter)

(* meter_distance * self.pixels_per_meter *)
meter_to_pixel(meter_distance) ==
    IF pixels_per_meter = None THEN None
    ELSE FracMul(meter_distance, pixels_per_meter)

(* a variant that converts with meter_to_pixel *)
calculate_distance_multiplied(point1, point2) ==
    LET dx == point2[1] - point1[1]
        dy == point2[2] - point1[2]
        pixel_distance == Frac(Sqrt(dx * dx + dy * dy), 1)
    IN  meter_to_pixel(pixel_distance)

calculate_distance(point1, point2) ==
    LET dx == point2[1] - point1[1]
        dy == point2[2] - point1[2]
        pixel_distance == Frac(Sqrt(dx * dx + dy * dy), 1)
    IN  pixel_to_meter(pixel_distance)

----------------------------------------------------------------------------
(* SpeedCalculator *)

(* speed_mps * 3.6 *)
KmhNum == 36
KmhDen == 10

(* min(5, len(speeds)) *)
SmoothingWindow == 5

SpeedState == [vehicle_data |-> vehicle_data, speeds |-> speeds,
               last_frame_time |-> last_frame_time]

Last(s) == s[Len(s)]

RECURSIVE SumLast(_, _)
SumLast(s, n) ==
    IF n = 0 THEN Frac(0, 1)
    ELSE FracAdd(s[Len(s)], SumLast(SubSeq(s, 1, Len(s) - 1), n - 1))

(* a variant that averages the whole speed history *)
MeanLast_all(s, num_measurements) ==
    FracDiv(SumLast(s, Len(s)), Frac(Len(s), 1))

(* np.mean(speeds[-num_measurements:]) *)
MeanLast(s, num_measurements) ==
    FracDiv(SumLast(s, num_measurements), Frac(num_measurements, 1))

Put(f, k, v) == [x \in DOMAIN f \cup {k} |-> IF x = k THEN v ELSE f[x]]

(* a variant that records a speed of 0 when no time has elapsed *)
SpeedStep_zero_speed(S, vehicle_id, bbox, current_frame_time, time_delta) ==
    LET center_x == bbox[1] + (bbox[3] \div 2)
        center_y == bbox[2] + (bbox[4] \div 2)
        current_position == <<center_x, center_y>>
    IN  IF vehicle_id \notin DOMAIN S.vehicle_data
        THEN [S |-> [S EXCEPT !.vehicle_data =
                        Put(@, vehicle_id, [positions |-> <<current_position>>,
                                            times |-> <<current_frame_time>>,
                                            speeds |-> <<>>])],
              exc |-> "none"]
        ELSE LET data == S.vehicle_data[vehicle_id]
                 prev_position == Last(data.positions)
                 distance_meters == calculate_distance(prev_position, current_position)
                 time_elapsed == IF Len(data.times) > 0
                                 THEN FracSub(current_frame_time, Last(data.times))
                                 ELSE time_delta
             IN  IF distance_meters = None
                 THEN [S |-> S, exc |-> ValueError]
                 ELSE LET S1 ==
                          IF time_elapsed[1] > 0
                          THEN LET speed_mps == FracDiv(distance_meters, time_elapsed)
                                   speed_kmh == FracMul(speed_mps, Frac(KmhNum, KmhDen))
                                   all == Append(data.speeds, speed_kmh)
                                   num_measurements == Min(SmoothingWindow, Len(all))
                                   avg_speed == MeanLast(all, num_measurements)
                               IN  [S EXCEPT !.vehicle_data[vehicle_id].speeds = all,
                                             !.speeds = Put(@, vehicle_id, avg_speed)]
                          ELSE LET all == Append(data.speeds, Frac(0, 1))
                                   num_measurements == Min(SmoothingWindow, Len(all))
                               IN  [S EXCEPT !.vehicle_data[vehicle_id].speeds = all,
                                             !.speeds = Put(@, vehicle_id,
                                                            MeanLast(all, num_measurements))]
                      IN  [S |-> [S1 EXCEPT
                                    !.vehicle_data[vehicle_id].positions =
                                        Append(@, current_position),
                                    !.vehicle_data[vehicle_id].times =
                                        Append(@, current_frame_time)],
                           exc |-> "none"]

(* lines 63-110 for one item of the mapping *)
SpeedStep(S, vehicle_id, bbox, current_frame_time, time_delta) ==
    LET center_x == bbox[1] + (bbox[3] \div 2)
        center_y == bbox[2] + (bbox[4] \div 2)
        current_position == <<center_x, center_y>>
    IN  IF vehicle_id \notin DOMAIN S.vehicle_data
        THEN [S |-> [S EXCEPT !.vehicle_data =
                        Put(@, vehicle_id, [positions |-> <<current_position>>,
                                            times |-> <<current_frame_time>>,
                                            speeds |-> <<>>])],
              exc |-> "none"]
        ELSE LET data == S.vehicle_data[vehicle_id]
                 prev_position == Last(data.positions)
                 distance_meters == calculate_distance(prev_position, current_position)
                 time_elapsed == IF Len(data.times) > 0
                                 THEN FracSub(current_frame_time, Last(data.times))
                                 ELSE time_delta
             IN  IF distance_meters = None
                 THEN [S |-> S, exc |-> ValueError]
                 ELSE LET S1 ==
                          IF time_elapsed[1] > 0
                          THEN LET speed_mps == FracDiv(distance_meters, time_elapsed)
                                   speed_kmh == FracMul(speed_mps, Frac(KmhNum, KmhDen))
                                   all == Append(data.speeds, speed_kmh)
                                   num_measurements == Min(SmoothingWindow, Len(all))
                                   avg_speed == MeanLast(all, num_measurements)
                               IN  [S EXCEPT !.vehicle_data[vehicle_id].speeds = all,
                                             !.speeds = Put(@, vehicle_id, avg_speed)]
                          ELSE S
                      IN  [S |-> [S1 EXCEPT
                                    !.vehicle_data[vehicle_id].positions =
                                        Append(@, current_position),
                                    !.vehicle_data[vehicle_id].times =
                                        Append(@, current_frame_time)],
                           exc |-> "none"]

(* a variant that takes the items of the mapping in descending id order *)
RECURSIVE SpeedLoop_descending(_, _, _, _, _)
SpeedLoop_descending(S, vs, todo, current_frame_time, time_delta) ==
    IF todo = {} THEN [S |-> S, exc |-> "none"]
    ELSE LET vehicle_id == CHOOSE x \in todo : \A y \in todo : y <= x
             r == SpeedStep(S, vehicle_id, vs[vehicle_id].bbox, current_frame_time, time_delta)
         IN  IF r.exc # "none" THEN r
             ELSE SpeedLoop_descending(r.S, vs, todo \ {vehicle_id}, current_frame_time,
                                       time_delta)

(* lines 62-110: the items of the mapping in dict order *)
RECURSIVE SpeedLoop(_, _, _, _, _)
SpeedLoop(S, vs, todo, current_frame_time, time_delta) ==
    IF todo = {} THEN [S |-> S, exc |-> "none"]
    ELSE LET vehicle_id == MinOf(todo)
             r == SpeedStep(S, vehicle_id, vs[vehicle_id].bbox, current_frame_time, time_delta)
         IN  IF r.exc # "none" THEN r
             ELSE SpeedLoop(r.S, vs, todo \ {vehicle_id}, current_frame_time, time_delta)

(* a variant that drops the speed of an absent id together with its history *)
speed_update_forget_speed(S, vs, frame_number, current_time) ==
    LET current_frame_time == IF fps # None /\ frame_number # None
                              THEN FracDiv(frame_number, fps)
                              ELSE current_time
        last == IF S.last_frame_time = None THEN current_frame_time ELSE S.last_frame_time
        time_delta == FracSub(current_frame_time, last)
        S0 == [S EXCEPT !.last_frame_time = current_frame_time]
        r == SpeedLoop(S0, vs, DOMAIN vs, current_frame_time, time_delta)
    IN  IF r.exc # "none" THEN r
        ELSE [S |-> [r.S EXCEPT !.vehicle_data = Restrict(@, DOMAIN @ \cap DOMAIN vs),
                                !.speeds = Restrict(@, DOMAIN @ \cap DOMAIN vs)],
              exc |-> "none"]

(* a variant that gives an identity a speed of 0 with its first sample *)
speed_update_first_speed(S, vs, frame_number, current_time) ==
    LET current_frame_time == IF fps # None /\ frame_number # None
                              THEN FracDiv(frame_number, fps)
                              ELSE current_time
        last == IF S.last_frame_time = None THEN current_frame_time ELSE S.last_frame_time
        time_delta == FracSub(current_frame_time, last)
        S0 == [S EXCEPT !.last_frame_time = current_frame_time]
        r == SpeedLoop(S0, vs, DOMAIN vs, current_frame_time, time_delta)
        first == DOMAIN vs \ DOMAIN S.vehicle_data
    IN  IF r.exc # "none" THEN r
        ELSE [S |-> [r.S EXCEPT !.vehicle_data =
                        Restrict(@, DOMAIN @ \cap DOMAIN vs),
                                !.speeds = [id \in DOMAIN @ \cup first |->
                                              IF id \in first THEN Frac(0, 1) ELSE @[id]]],
              exc |-> "none"]

(* SpeedCalculator.update; frame_number and current_time are None when not given *)
speed_update(S, vs, frame_number, current_time) ==
    LET current_frame_time == IF fps # None /\ frame_number # None
                              THEN FracDiv(frame_number, fps)
                              ELSE current_time
        last == IF S.last_frame_time = None THEN current_frame_time ELSE S.last_frame_time
        time_delta == FracSub(current_frame_time, last)
        S0 == [S EXCEPT !.last_frame_time = current_frame_time]
        r == SpeedLoop(S0, vs, DOMAIN vs, current_frame_time, time_delta)
    IN  IF r.exc # "none" THEN r
        ELSE [S |-> [r.S EXCEPT !.vehicle_data =
                        Restrict(@, DOMAIN @ \cap DOMAIN vs)],
              exc |-> "none"]

(* SpeedCalculator.update called on the tracker's own dict: the calculator, *)
(* the exception and that dict after the call; the method reads            *)
(* vehicles.items() and vehicle_data['bbox'] and assigns to neither        *)
speed_update_shared(S, vs, frame_number, current_time) ==
    LET r == speed_update(S, vs, frame_number, current_time)
    IN  [S |-> r.S, exc |-> r.exc, vehicles |-> vs]

get_speed_data == speeds

----------------------------------------------------------------------------
(* The state after construction *)

Construction(max_disappeared_args) ==
    /\ vehicles = <<>>
    /\ next_vehicle_id = 0
    /\ crossed_vehicles = {}
    /\ max_disappeared \in max_disappeared_args
    /\ vehicle_count = 0
    /\ counted_vehicles = {}
    /\ count_history = <<>>
    /\ last_update_time = 0
    /\ vehicle_data = <<>>
    /\ speeds = <<>>
    /\ last_frame_time = None
    /\ fps \in FpsArgs
    /\ pixels_per_meter \in PixelsPerMeterArgs
    /\ pc = "tracker"
    /\ clock = 0
    /\ frame_count = 0
    /\ op = "init"
    /\ lastDets = <<>>
    /\ lastNext = 0
    /\ lastUsed = {}
    /\ registered = {}
    /\ alwaysMatched = {}
    /\ everCrossed = {}
    /\ everPastLine = {}
    /\ exc = "none"
    /\ iou = [called |-> FALSE, bbox1 |-> <<0, 0, 0, 0>>, bbox2 |-> <<0, 0, 0, 0>>,
              overlap |-> Frac(0, 1)]
    /\ call = <<>>

Init == Construction(MaxDisappearedArgs)

(* the ids of `checked` that are live in T with the bottom of the box at or *)
(* past the line                                                            *)
PastLine(T, checked, detection_line_y) ==
    {k \in checked \cap DOMAIN T.vehicles :
        T.vehicles[k].bbox[2] + T.vehicles[k].bbox[4] >= detection_line_y}

(* self.tracker.update(bounding_boxes, detection_line_y): the tracker's fields *)
(* after the call and the history of the call                                 *)
TrackerCall(bounding_boxes, detection_line_y) ==
    \E r \in {update(TrackerState, bounding_boxes, detection_line_y)} :
        /\ vehicles' = r.T.vehicles
        /\ next_vehicle_id' = r.T.next_vehicle_id
        /\ crossed_vehicles' = r.T.crossed_vehicles
        /\ exc' = r.exc
        /\ op' = "tracker.update"
        /\ lastDets' = bounding_boxes
        /\ lastNext' = next_vehicle_id
        /\ lastUsed' = r.used_vehicles
        /\ registered' = registered \cup DOMAIN r.T.vehicles
        /\ alwaysMatched' = (alwaysMatched \cap r.used_vehicles)
                                \cup (DOMAIN r.T.vehicles \ DOMAIN vehicles)
        /\ everCrossed' = everCrossed \cup
               {k \in DOMAIN r.T.vehicles : r.T.vehicles[k].crossed_line}
        /\ everPastLine' = (everPastLine \cap DOMAIN r.T.vehicles) \cup
               PastLine(r.T, r.used_vehicles \cup (DOMAIN r.T.vehicles \ DOMAIN vehicles),
                        detection_line_y)

(* process_frame, step 2: self.tracker.update(bounding_boxes, detection_line_y) *)
TrackerUpdate ==
    /\ pc = "tracker"
    /\ \E bounding_boxes \in DetLists, detection_line_y \in LineYs, frame_time \in {t \in FrameTimes : t >= clock} :
          /\ next_vehicle_id + Len(bounding_boxes) <= MaxIds
          /\ TrackerCall(bounding_boxes, detection_line_y)
          /\ clock' = frame_time
          /\ pc' = IF exc' = "none" THEN "counter" ELSE "crashed"
    /\ UNCHANGED <<max_disappeared, counterVars, speedVars, frame_count, iou, call>>

(* process_frame, step 4: self.counter.update(tracked_vehicles, ...) *)
CounterUpdate ==
    /\ pc = "counter"
    /\ \E C \in {counter_update(CounterState, vehicles, clock)} :
          /\ vehicle_count' = C.vehicle_count
          /\ counted_vehicles' = C.counted_vehicles
          /\ count_history' = C.count_history
          /\ last_update_time' = C.last_update_time
    /\ pc' = "tracker"
    /\ op' = "counter.update"
    /\ exc' = "none"
    /\ UNCHANGED <<trackerVars, speedVars, clock, frame_count, trackerHistory, iou, call>>

Next == TrackerUpdate \/ CounterUpdate

Spec == Init /\ [][Next]_vars

(* process_video: every step of process_frame, frame after frame; the speed *)
(* calculator has its fps and is called with frame_number = frame_count    *)
FramePixelsPerMeter == <<100, 1>>

(* frame_time = self.frame_count / fps *)
frame_time == FracDiv(Frac(frame_count, 1), fps)

FrameTrackerUpdate ==
    /\ pc = "tracker"
    /\ frame_count \in FrameNumbers
    /\ \E bounding_boxes \in DetLists, detection_line_y \in LineYs :
          /\ next_vehicle_id + Len(bounding_boxes) <= MaxIds
          /\ TrackerCall(bounding_boxes, detection_line_y)
          /\ pc' = IF exc' = "none" THEN "speed" ELSE "crashed"
    /\ UNCHANGED <<max_disappeared, counterVars, speedVars, clock, frame_count, iou, call>>

(* step 3, lines 100-105: calibrate_from_lane_width sets pixels_per_meter *)
FrameCalibrate ==
    /\ pc = "speed"
    /\ pixels_per_meter = None
    /\ pixels_per_meter' = FramePixelsPerMeter
    /\ op' = "calibrate"
    /\ UNCHANGED <<trackerVars, counterVars, vehicle_data, speeds, last_frame_time, fps, pc,
                   clock, frame_count, trackerHistory, exc, iou, call>>

(* step 3, lines 107-111: self.speed_calculator.update(tracked_vehicles, ...) *)
FrameSpeedUpdate ==
    /\ pc = "speed"
    /\ pixels_per_meter # None
    /\ \E r \in {speed_update_shared(SpeedState, vehicles, Frac(frame_count, 1),
                                      frame_time)} :
          /\ vehicle_data' = r.S.vehicle_data
          /\ speeds' = r.S.speeds
          /\ last_frame_time' = r.S.last_frame_time
          /\ vehicles' = r.vehicles
          /\ exc' = r.exc
          /\ pc' = IF r.exc = "none" THEN "counter" ELSE "crashed"
    /\ op' = "speed.update"
    /\ UNCHANGED <<next_vehicle_id, crossed_vehicles, max_disappeared, counterVars, fps,
                   pixels_per_meter, clock, frame_count, trackerHistory, iou, call>>

(* step 4, lines 114-118, and self.frame_count += 1 at the end of the frame *)
FrameCounterUpdate ==
    /\ pc = "counter"
    /\ \E r \in {counter_update_shared(CounterState, vehicles, frame_time)} :
          /\ vehicle_count' = r.C.vehicle_count
          /\ counted_vehicles' = r.C.counted_vehicles
          /\ count_history' = r.C.count_history
          /\ last_update_time' = r.C.last_update_time
          /\ vehicles' = r.vehicles
    /\ frame_count' = frame_count + 1
    /\ pc' = "tracker"
    /\ op' = "counter.update"
    /\ exc' = "none"
    /\ UNCHANGED <<next_vehicle_id, crossed_vehicles, max_disappeared, speedVars, clock,
                   trackerHistory, iou, call>>

FrameNext == FrameTrackerUpdate \/ FrameCalibrate \/ FrameSpeedUpdate \/ FrameCounterUpdate

SpecFrame == Init /\ [][FrameNext]_vars

(* process_video with a tracker constructed with max_disappeared = 5, over    *)
(* eight frames of at most one detection                                      *)
PatientArgs == {5}
PatientFrames == 0..7
PatientLists == {<<>>, <<BoxA>>, <<BoxB>>, <<BoxC>>}
PatientLineYs == {30}

InitPatient == Construction(PatientArgs)

PatientTrackerUpdate ==
    /\ pc = "tracker"
    /\ frame_count \in PatientFrames
    /\ \E bounding_boxes \in PatientLists, detection_line_y \in PatientLineYs :
          /\ TrackerCall(bounding_boxes, detection_line_y)
          /\ next_vehicle_id' <= MaxIds
          /\ pc' = IF exc' = "none" THEN "speed" ELSE "crashed"
          /\ call' = [detection_line_y |-> detection_line_y,
                      vehicle_bboxes |-> [k \in DOMAIN vehicles |-> vehicles[k].bbox]]
    /\ UNCHANGED <<max_disappeared, counterVars, speedVars, clock, frame_count, iou>>

PatientNext == PatientTrackerUpdate \/ FrameCalibrate \/ FrameSpeedUpdate \/ FrameCounterUpdate

SpecFramePatient == InitPatient /\ [][PatientNext]_vars

(* VehicleCounter.update on its own, with any mapping and any timestamp *)
VehicleViews == {[crossed_line |-> TRUE], [crossed_line |-> FALSE], [bbox |-> BoxA]}
CounterInputs == UNION {[S -> VehicleViews] : S \in SUBSET (0..(MaxIds - 1))}

CounterTimes == {0, 1, 2, 3}

CounterUpdateAny ==
    /\ \E vs \in CounterInputs, current_time \in CounterTimes :
          \E C \in {counter_update(CounterState, vs, current_time)} :
             /\ vehicle_count' = C.vehicle_count
             /\ counted_vehicles' = C.counted_vehicles
             /\ count_history' = C.count_history
             /\ last_update_time' = C.last_update_time
    /\ op' = "counter.update"
    /\ UNCHANGED <<trackerVars, speedVars, pc, clock, frame_count, trackerHistory, exc,
                   iou, call>>

SpecCounter == Init /\ [][CounterUpdateAny]_vars

(* VehicleCounter with all its operations called in any order: update with   *)
(* mappings of vehicles that have crossed the line, get_count_rate and       *)
(* reset; time.time() reads any of CounterTimes                              *)
TimeWindows == {0, 1, 2}
CrossedIds == {0, 1, 2}
CrossedInputs == {[id \in S |-> [bbox |-> BoxA, crossed_line |-> TRUE]] : S \in SUBSET CrossedIds}

CounterUpdateCrossed ==
    /\ \E vs \in CrossedInputs, current_time \in CounterTimes :
          \E C \in {counter_update(CounterState, vs, current_time)} :
             /\ vehicle_count' = C.vehicle_count
             /\ counted_vehicles' = C.counted_vehicles
             /\ count_history' = C.count_history
             /\ last_update_time' = C.last_update_time
             /\ call' = [vehicles |-> vs, after |-> op,
                         counted_before_reset |->
                             IF op = "counter.reset" THEN call.before.counted_vehicles
                             ELSE {}]
    /\ op' = "counter.update"
    /\ UNCHANGED <<trackerVars, speedVars, pc, clock, frame_count, trackerHistory, exc,
                   iou>>

GetCountRate ==
    /\ \E time_window \in TimeWindows, now \in CounterTimes :
          call' = [time_window |-> time_window, now |-> now,
                   returned |-> get_count_rate(CounterState, time_window, now)]
    /\ op' = "counter.get_count_rate"
    /\ UNCHANGED <<trackerVars, counterVars, speedVars, pc, clock, frame_count,
                   trackerHistory, exc, iou>>

CounterReset ==
    /\ \E now \in CounterTimes :
          \E C \in {counter_reset(CounterState, now)} :
             /\ vehicle_count' = C.vehicle_count
             /\ counted_vehicles' = C.counted_vehicles
             /\ count_history' = C.count_history
             /\ last_update_time' = C.last_update_time
    /\ call' = [before |-> CounterState]
    /\ op' = "counter.reset"
    /\ UNCHANGED <<trackerVars, speedVars, pc, clock, frame_count, trackerHistory, exc,
                   iou>>

CounterNext == CounterUpdateCrossed \/ GetCountRate \/ CounterReset

SpecCounterCalls == Init /\ [][CounterNext]_vars

(* SpeedCalculator.update on its own, with any mapping, by frame number or by *)
(* timestamp                                                                 *)
SpeedInputs == UNION {[S -> [bbox : SpeedBoxes]] : S \in SUBSET SpeedIds}

SpeedUpdateAny ==
    /\ \E vs \in SpeedInputs, n \in FrameNumbers, by_frame \in BOOLEAN :
          /\ \A id \in DOMAIN vs \cap DOMAIN vehicle_data :
                Len(vehicle_data[id].positions) < MaxSamples
          /\ \E r \in {speed_update(SpeedState, vs,
                                    IF by_frame THEN Frac(n, 1) ELSE None,
                                    IF by_frame THEN None ELSE FracDiv(Frac(n, 1), fps))} :
                /\ vehicle_data' = r.S.vehicle_data
                /\ speeds' = r.S.speeds
                /\ last_frame_time' = r.S.last_frame_time
                /\ exc' = r.exc
                /\ call' = [vehicles |-> vs]
    /\ op' = "speed.update"
    /\ UNCHANGED <<trackerVars, counterVars, fps, pixels_per_meter, pc, clock,
                   frame_count, trackerHistory, iou>>

SpecSpeed == Init /\ [][SpeedUpdateAny]_vars

(* SpeedCalculator.update on one vehicle that stays tracked for up to seven   *)
(* calls, with frame numbers that advance by one, repeat or step back by one *)
TrackFrames == 0..6
TrackBoxes == {<<0, 10, 2, 2>>, <<0, 30, 2, 2>>}

SpeedUpdateTrack ==
    /\ frame_count \in TrackFrames
    /\ \A id \in DOMAIN vehicle_data : Len(vehicle_data[id].positions) \in TrackFrames
    /\ \E bbox \in TrackBoxes, frame_number \in {frame_count - 1, frame_count} \cap Nat :
          \E vs \in {[id \in {0} |-> [bbox |-> bbox]]} :
             \E r \in {speed_update(SpeedState, vs, Frac(frame_number, 1), None)} :
                /\ vehicle_data' = r.S.vehicle_data
                /\ speeds' = r.S.speeds
                /\ last_frame_time' = r.S.last_frame_time
                /\ exc' = r.exc
                /\ call' = [vehicles |-> vs]
    /\ frame_count' \in {frame_count, frame_count + 1}
    /\ op' = "speed.update"
    /\ UNCHANGED <<trackerVars, counterVars, fps, pixels_per_meter, pc, clock,
                   trackerHistory, iou>>

SpecSpeedTrack == Init /\ [][SpeedUpdateTrack]_vars

(* VehicleTracker.update on its own, frame after frame, with any detection    *)
(* lists drawn from `lists` and any line of `lines`; an exception ends the    *)
(* run                                                                       *)
TrackerUpdateOn(lists, lines) ==
    /\ exc = "none"
    /\ \E bounding_boxes \in lists, detection_line_y \in lines :
          /\ next_vehicle_id + Len(bounding_boxes) <= MaxIds
          /\ TrackerCall(bounding_boxes, detection_line_y)
          /\ call' = [detection_line_y |-> detection_line_y,
                      vehicle_bboxes |-> [k \in DOMAIN vehicles |-> vehicles[k].bbox]]
    /\ UNCHANGED <<max_disappeared, counterVars, speedVars, pc, clock, frame_count, iou>>

(* with the boxes a detector hands over *)
TrackerUpdateAny == TrackerUpdateOn(DetLists, LineYs)

SpecTracker == Init /\ [][TrackerUpdateAny]_vars

(* with detector boxes of which two, BoxA and BoxE, have the same IoU (1/2) *)
(* with the third, BoxC                                                     *)
BoxE == <<0, 4, 1, 6>>
TiedBoxes == {BoxA, BoxC, BoxE}
TiedLists == SeqsUpTo(TiedBoxes, MaxDets)
TiedLineYs == {30}

TrackerUpdateTied == TrackerUpdateOn(TiedLists, TiedLineYs)

SpecTrackerTied == Init /\ [][TrackerUpdateTied]_vars

(* with boxes of width or height 0 among them *)
BoxZ == <<0, 3, 0, 0>>
BoxW == <<0, 0, 0, 6>>
DegenerateBoxes == {BoxA, BoxC, BoxZ, BoxW}
DegenerateLists == SeqsUpTo(DegenerateBoxes, MaxDets)

TrackerUpdateDegenerate == TrackerUpdateOn(DegenerateLists, LineYs)

SpecTrackerDegenerate == Init /\ [][TrackerUpdateDegenerate]_vars

(* with frames of at most two detector boxes and one line, every frame whose *)
(* registrations keep the next id within MaxIds                              *)
GreedyLists == {s \in DetLists : Len(s) <= 2}

TrackerUpdateGreedy ==
    /\ exc = "none"
    /\ \E bounding_boxes \in GreedyLists, detection_line_y \in TiedLineYs :
          /\ TrackerCall(bounding_boxes, detection_line_y)
          /\ next_vehicle_id' <= MaxIds
          /\ call' = [detection_line_y |-> detection_line_y,
                      vehicle_bboxes |-> [k \in DOMAIN vehicles |-> vehicles[k].bbox]]
    /\ UNCHANGED <<max_disappeared, counterVars, speedVars, pc, clock, frame_count, iou>>

SpecTrackerGreedy == Init /\ [][TrackerUpdateGreedy]_vars

(* The tracker's mapping fed to SpeedCalculator.update once per frame, with   *)
(* no calibration step in between: with pixels_per_meter = None the update    *)
(* raises, the caller carries on with the next frame                          *)
FeedFrames == 0..3

FeedTrackerUpdate ==
    /\ pc = "tracker"
    /\ frame_count \in FeedFrames
    /\ \E bounding_boxes \in GreedyLists, detection_line_y \in TiedLineYs :
          /\ TrackerCall(bounding_boxes, detection_line_y)
          /\ next_vehicle_id' <= MaxIds
    /\ pc' = "speed"
    /\ UNCHANGED <<max_disappeared, counterVars, speedVars, clock, frame_count, iou, call>>

FeedSpeedUpdate ==
    /\ pc = "speed"
    /\ \E r \in {speed_update_shared(SpeedState, vehicles, Frac(frame_count, 1),
                                      frame_time)} :
          /\ vehicle_data' = r.S.vehicle_data
          /\ speeds' = r.S.speeds
          /\ last_frame_time' = r.S.last_frame_time
          /\ vehicles' = r.vehicles
          /\ exc' = r.exc
    /\ call' = [before |-> SpeedState]
    /\ frame_count' = frame_count + 1
    /\ pc' = "tracker"
    /\ op' = "speed.update"
    /\ UNCHANGED <<next_vehicle_id, crossed_vehicles, max_disappeared, counterVars, fps,
                   pixels_per_meter, clock, trackerHistory, iou>>

FeedNext == FeedTrackerUpdate \/ FeedSpeedUpdate

SpecFeed == Init /\ [][FeedNext]_vars

(* _calculate_overlap on its own, on any two boxes of non-negative width and *)
(* height                                                                    *)
AnyBoxes == (0..MaxCoord) \X (0..MaxCoord) \X (0..MaxCoord) \X (0..MaxCoord)

CalculateOverlap ==
    /\ ~iou.called
    /\ \E bbox1 \in AnyBoxes, bbox2 \in AnyBoxes :
          iou' = [called |-> TRUE, bbox1 |-> bbox1, bbox2 |-> bbox2,
                  overlap |-> calculate_overlap(bbox1, bbox2)]
    /\ UNCHANGED <<trackerVars, counterVars, speedVars, pc, clock, frame_count,
                   historyVars, call>>

SpecIoU == Init /\ [][CalculateOverlap]_vars

----------------------------------------------------------------------------
(* Properties *)

Count(S) == Cardinality(S)
Range(s) == {s[i] : i \in DOMAIN s}
Bottom(bbox) == bbox[2] + bbox[4]
Deleted == registered \ DOMAIN vehicles

(* C1: identities are assigned in strictly increasing order and never reused: *)
(* every id that an update adds to the live set is greater than every id      *)
(* registered before it, deleted ones included, and an update that registers  *)
(* k detections adds k distinct live ids.                                     *)
C1_IdsStrictlyIncreasing ==
    [][LET new == DOMAIN vehicles' \ DOMAIN vehicles
       IN  /\ \A i \in new : \A j \in registered : i > j
           /\ op' = "tracker.update" /\ Len(lastDets') > 0
                 => Count(new) = Len(lastDets') - Count(lastUsed')]_vars

C1_Witness ==
    /\ op = "tracker.update"
    /\ \E i \in DOMAIN vehicles, j \in Deleted : i >= lastNext /\ i > j

(* C2: an identity is deleted exactly in the update where its disappeared     *)
(* count first exceeds max_disappeared, never earlier; every live object has  *)
(* 0 <= disappeared <= max_disappeared after each update; a deleted id never  *)
(* comes back.                                                                *)
C2_DeletedExactlyOverThreshold ==
    [][op' = "tracker.update" =>
          /\ \A id \in DOMAIN vehicles :
                /\ id \notin DOMAIN vehicles'
                      => vehicles[id].disappeared = max_disappeared /\ id \notin lastUsed'
                /\ id \in lastUsed'
                      => id \in DOMAIN vehicles' /\ vehicles'[id].disappeared = 0
                /\ id \notin lastUsed' /\ vehicles[id].disappeared = max_disappeared
                      => id \notin DOMAIN vehicles'
                /\ id \notin lastUsed' /\ vehicles[id].disappeared < max_disappeared
                      => /\ id \in DOMAIN vehicles'
                         /\ vehicles'[id].disappeared = vehicles[id].disappeared + 1
          /\ \A id \in DOMAIN vehicles' :
                vehicles'[id].disappeared >= 0 /\ vehicles'[id].disappeared <= max_disappeared
          /\ Deleted \cap DOMAIN vehicles' = {}]_vars

C2_Witness ==
    /\ op = "tracker.update"
    /\ Deleted # {}
    /\ \E id \in DOMAIN vehicles : vehicles[id].disappeared = max_disappeared

(* C3: crossed_line of a live identity never goes from true back to false,    *)
(* whatever the detections and the line.                                      *)
C3_CrossedLineNeverReset ==
    [][\A id \in DOMAIN vehicles \cap DOMAIN vehicles' :
          vehicles[id].crossed_line => vehicles'[id].crossed_line]_vars

C3_Witness ==
    \E id \in DOMAIN vehicles, y \in LineYs :
        /\ vehicles[id].crossed_line
        /\ id \in lastUsed
        /\ Bottom(vehicles[id].bbox) < y
        /\ \A z \in LineYs : Bottom(vehicles[id].bbox) < z

(* C4: the cumulative count never decreases over VehicleCounter.update calls  *)
(* and after every update equals the size of the counted-identity set.        *)
C4_CountMonotoneAndSetSize ==
    [][/\ vehicle_count' >= vehicle_count
       /\ vehicle_count' = Count(counted_vehicles')]_vars

C4_Witness ==
    /\ op = "counter.update"
    /\ vehicle_count >= 2
    /\ Len(count_history) = vehicle_count

(* C5: fed the tracker's mapping once per frame, the count after every frame  *)
(* equals the number of identities whose crossed_line ever became true, which *)
(* is the tracker's get_crossed_count, deleted identities included.           *)
C5_CountEqualsEverCrossed ==
    pc = "tracker" =>
        /\ vehicle_count = Count(everCrossed)
        /\ vehicle_count = get_crossed_count

C5_Witness ==
    /\ pc = "tracker"
    /\ op = "counter.update"
    /\ vehicle_count >= 2
    /\ \E id \in counted_vehicles : id \in Deleted

(* C6: every detection of a non-empty frame that no existing identity claims  *)
(* is registered as a new identity with that bbox and disappeared = 0; with   *)
(* no existing tracks and one detection the active vehicles are exactly one   *)
(* identity with the input box.                                               *)
C6_UnclaimedDetectionsRegistered ==
    [][op' = "tracker.update" /\ Len(lastDets') > 0 =>
          LET new == DOMAIN vehicles' \ DOMAIN vehicles
              dets == lastDets'
          IN  /\ Count(new) = Len(dets) - Count(lastUsed')
              /\ \A k \in new : vehicles'[k].disappeared = 0
              /\ \A b \in Range(dets) :
                    Count({k \in new : vehicles'[k].bbox = b})
                        = Count({i \in DOMAIN dets : dets[i] = b})
                            - Count({k \in lastUsed' : vehicles'[k].bbox = b})
              /\ \A k \in new : vehicles'[k].bbox \in Range(dets)
              /\ DOMAIN vehicles = {} /\ Len(dets) = 1
                    => /\ DOMAIN get_active_vehicles' = {next_vehicle_id}
                       /\ get_active_vehicles'[next_vehicle_id].bbox = dets[1]
                       /\ get_active_vehicles'[next_vehicle_id].disappeared = 0]_vars

C6_Witness ==
    /\ op = "tracker.update"
    /\ Len(lastDets) = 2
    /\ Count(lastUsed) = 1
    /\ lastNext > 0
    /\ next_vehicle_id = lastNext + 1
    /\ vehicles[lastNext].bbox \in Range(lastDets)

(* C7: an identity matched in every update since its registration stays live  *)
(* under its id with disappeared = 0, and the detection it claims is not      *)
(* registered under another id.                                               *)
C7_AlwaysMatchedKeepsId ==
    /\ \A id \in alwaysMatched : id \in DOMAIN vehicles /\ vehicles[id].disappeared = 0
    /\ op = "tracker.update" /\ Len(lastDets) > 0
          => next_vehicle_id - lastNext = Len(lastDets) - Count(lastUsed)

C7_Witness ==
    \E id \in alwaysMatched \cap lastUsed, j \in Deleted :
        /\ j > id
        /\ vehicles[id].bbox # vehicles[id].first_seen.bbox

(* two boxes overlap when their interiors meet *)
Overlapping(a, b) ==
    /\ a[1] < b[1] + b[3] /\ b[1] < a[1] + a[3]
    /\ a[2] < b[2] + b[4] /\ b[2] < a[2] + a[4]

(* C8: for all boxes of non-negative width and height the overlap ratio is a  *)
(* number in [0, 1], is the same for (a, b) and (b, a), and is 0 when the     *)
(* boxes do not overlap.                                                      *)
C8_OverlapRangeSymmetryDisjoint ==
    iou.called =>
        LET r == iou.overlap
            back == calculate_overlap(iou.bbox2, iou.bbox1)
        IN  /\ ~Raises(r)
            /\ r[1] >= 0 /\ r[1] <= r[2]
            /\ ~Raises(back) /\ FracEQ(r, back)
            /\ ~Overlapping(iou.bbox1, iou.bbox2) => r[1] = 0

(* C9: for every box a the overlap ratio of a with itself is exactly 1.       *)
C9_OverlapOfBoxWithItselfIsOne ==
    iou.called /\ iou.bbox1 = iou.bbox2 =>
        ~Raises(iou.overlap) /\ iou.overlap[1] = iou.overlap[2]

(* C10: for an identity with a previous sample (c_prev, t_prev) and a current *)
(* time t > t_prev, the instantaneous speed appended by the update is         *)
(* (pixel distance / pixels_per_meter) / (t - t_prev) * 3.6, with t_prev the  *)
(* identity's own last sample time; 10 px at 100 px per meter in 1/30 s is    *)
(* 10.8 km/h.                                                                 *)
C10_InstantaneousSpeed ==
    \A id \in DOMAIN vehicle_data :
        LET d == vehicle_data[id]
            n == Len(d.times)
        IN  n >= 2 /\ FracGT(d.times[n], d.times[n - 1]) =>
               LET dx == d.positions[n][1] - d.positions[n - 1][1]
                   dy == d.positions[n][2] - d.positions[n - 1][2]
                   px == Sqrt(dx * dx + dy * dy)
                   dt_num == d.times[n][1] * d.times[n - 1][2]
                                 - d.times[n - 1][1] * d.times[n][2]
                   dt_den == d.times[n][2] * d.times[n - 1][2]
                   v == Last(d.speeds)
               IN  /\ Len(d.speeds) >= 1
                   /\ v[2] > 0
                   \* v = (px / ppm) / (dt_num / dt_den) * 36 / 10
                   /\ v[1] * (pixels_per_meter[1] * dt_num * 10)
                         = v[2] * (px * pixels_per_meter[2] * dt_den * 36)
                   /\ px = 10 /\ pixels_per_meter = <<100, 1>> /\ dt_num = 1 /\ dt_den = 30
                         => v = <<54, 5>>

C10_Witness ==
    /\ op = "speed.update"
    /\ \E id \in DOMAIN vehicle_data :
          LET d == vehicle_data[id]
              n == Len(d.times)
          IN  /\ n >= 2
              /\ d.times[n] = <<1, 15>> /\ d.times[n - 1] = <<1, 30>>
              /\ d.positions[n - 1] = <<7, 1>> /\ d.positions[n] = <<1, 9>>
              /\ Last(d.speeds) = <<54, 5>>

(* C11: with pixels_per_meter = None, SpeedCalculator.update raises the       *)
(* ValueError exactly when the mapping holds an identity that already has a   *)
(* recorded sample; when every identity of the mapping is a first observation *)
(* the call returns, records one sample for each and produces no speed.       *)
C11_ValueErrorExactlyOnConversion ==
    [][op' = "speed.update" /\ pixels_per_meter = None =>
          LET vs == call'.vehicles
              known == DOMAIN vs \cap DOMAIN vehicle_data
          IN  /\ exc' \in {"none", ValueError}
              /\ exc' = ValueError <=> known # {}
              /\ known = {} =>
                    /\ speeds' = speeds
                    /\ DOMAIN vehicle_data' = DOMAIN vs
                    /\ \A id \in DOMAIN vs :
                          /\ Len(vehicle_data'[id].positions) = 1
                          /\ vehicle_data'[id].speeds = <<>>]_vars

C11_Witness ==
    /\ op = "speed.update"
    /\ pixels_per_meter = None
    /\ exc = ValueError
    /\ \E id \in DOMAIN call.vehicles \cap DOMAIN vehicle_data :
          /\ Len(vehicle_data[id].positions) = 1
          /\ id \notin DOMAIN speeds

(* the events of count_history inside the window of a rate query *)
EventsInWindow ==
    {i \in DOMAIN count_history : call.now - count_history[i][1] <= call.time_window}

(* C12: a rate query whose window holds exactly one event raises no           *)
(* ZeroDivisionError and, for a window > 0, returns the single-point fallback *)
(* (vehicle_count / time_window) * 60.                                        *)
C12_SingleEventRateIsFallback ==
    op = "counter.get_count_rate" /\ Count(EventsInWindow) = 1 =>
        /\ ~Raises(call.returned)
        /\ call.time_window > 0 =>
              call.returned[1] * call.time_window
                  = vehicle_count * PerMinute * call.returned[2]

C12_Witness ==
    /\ op = "counter.get_count_rate"
    /\ Count(EventsInWindow) = 1
    /\ Len(count_history) = 3
    /\ call.time_window = 2
    /\ call.returned = <<90, 1>>

(* C13: an identity absent from the mapping passed to SpeedCalculator.update  *)
(* has no position/time history after the call returns, and its smoothed      *)
(* speed is the same after the call as before it, in that update and in every *)
(* later one it is absent from; no key of the speed mapping ever disappears.  *)
C13_AbsentIdKeepsSpeedLosesHistory ==
    [][op' = "speed.update" =>
          LET vs == call'.vehicles
          IN  /\ DOMAIN speeds \subseteq DOMAIN speeds'
              /\ \A id \in DOMAIN speeds \ DOMAIN vs : speeds'[id] = speeds[id]
              /\ exc' = "none" => DOMAIN vehicle_data' = DOMAIN vs]_vars

C13_Witness ==
    /\ op = "speed.update"
    /\ exc = "none"
    /\ \E id \in DOMAIN speeds :
          /\ id \notin DOMAIN call.vehicles
          /\ id \notin DOMAIN vehicle_data
          /\ DOMAIN vehicle_data # {}

(* C14: VehicleTracker.update raises no exception for any sequence of frames  *)
(* of boxes of non-negative width and height, boxes of width or height 0      *)
(* included, and any line.                                                    *)
C14_UpdateNeverRaises ==
    op = "tracker.update" => exc = "none"

(* C15: SpeedCalculator.update and VehicleCounter.update, each called on the  *)
(* tracker's own mapping, leave the tracker as it was (live set, bbox,        *)
(* disappeared and crossed_line of every object, next id), and each leaves    *)
(* the other's state as it was.                                               *)
C15_DownstreamLeavesTrackerAlone ==
    [][/\ op' \in {"speed.update", "counter.update"} => trackerVars' = trackerVars
       /\ op' = "speed.update" => counterVars' = counterVars
       /\ op' = "counter.update" => speedVars' = speedVars]_vars

C15_Witness ==
    /\ op = "counter.update"
    /\ frame_count >= 2
    /\ \E id \in DOMAIN vehicles \cap DOMAIN speeds \cap counted_vehicles :
          /\ vehicles[id].crossed_line
          /\ vehicles[id].bbox # vehicles[id].first_seen.bbox
    /\ \E id \in DOMAIN vehicles : vehicles[id].disappeared > 0

(* C16: VehicleCounter.reset leaves the count at 0, the set of counted        *)
(* identities empty and the event history empty, in the one call, whatever    *)
(* the counter held before.                                                   *)
C16_ResetClearsCounter ==
    op = "counter.reset" =>
        /\ vehicle_count = 0
        /\ counted_vehicles = {}
        /\ count_history = <<>>

C16_Witness ==
    /\ op = "counter.reset"
    /\ call.before.vehicle_count = 3
    /\ Count(call.before.counted_vehicles) = 3
    /\ Len(call.before.count_history) = 3
    /\ vehicle_count = 0

(* C17: with existing tracks and a non-empty detection list, the identities   *)
(* are served in ascending id order: each takes, among the detections no      *)
(* smaller id has claimed, one of maximum IoU with its bbox, and only if that *)
(* IoU is strictly greater than min_overlap_ratio (an IoU equal to it is      *)
(* rejected); a matched identity has the detection as its bbox and            *)
(* disappeared = 0, and no two identities claim the same detection.           *)
C17_GreedyMatchInIdOrder ==
    op = "tracker.update" /\ DOMAIN call.vehicle_bboxes # {} /\ Len(lastDets) > 0 =>
        LET dets == lastDets
            olds == DOMAIN call.vehicle_bboxes
            IoU(id, j) == calculate_overlap(call.vehicle_bboxes[id], dets[j])
        IN  /\ exc = "none"
            /\ lastUsed \subseteq olds
            /\ \E a \in [lastUsed -> DOMAIN dets] :
                  /\ \A p, q \in lastUsed : p # q => a[p] # a[q]
                  /\ \A id \in olds :
                        LET free == DOMAIN dets \ {a[p] : p \in {q \in lastUsed : q < id}}
                        IN  IF id \in lastUsed
                            THEN /\ a[id] \in free
                                 /\ FracGT(IoU(id, a[id]), min_overlap_ratio)
                                 /\ \A j \in free : ~FracGT(IoU(id, j), IoU(id, a[id]))
                                 /\ vehicles[id].bbox = dets[a[id]]
                                 /\ vehicles[id].disappeared = 0
                            ELSE \A j \in free : ~FracGT(IoU(id, j), min_overlap_ratio)

(* id 0 at BoxA and id 1 at BoxB, one detection BoxB: id 0 comes first, its   *)
(* IoU with BoxB is exactly 3/10 and it is not matched; id 1 takes BoxB       *)
C17_Witness ==
    /\ op = "tracker.update"
    /\ lastDets = <<BoxB>>
    /\ DOMAIN call.vehicle_bboxes = {0, 1}
    /\ call.vehicle_bboxes[0] = BoxA /\ call.vehicle_bboxes[1] = BoxB
    /\ lastUsed = {1}
    /\ next_vehicle_id = 2
    /\ vehicles[0].bbox = BoxA /\ vehicles[0].disappeared = 1
    /\ vehicles[1].bbox = BoxB /\ vehicles[1].disappeared = 0
    /\ FracEQ(calculate_overlap(BoxA, BoxB), min_overlap_ratio)

(* C18: when several detections that no smaller id has claimed overlap an     *)
(* identity's bbox by more than min_overlap_ratio and tie for its best IoU,   *)
(* the identity takes the first of them in the order of the detection list.   *)
C18_FirstOfTiedDetectionsWins ==
    op = "tracker.update" /\ DOMAIN call.vehicle_bboxes # {} /\ Len(lastDets) > 0 =>
        LET dets == lastDets
            IoU(id, j) == calculate_overlap(call.vehicle_bboxes[id], dets[j])
        IN  \E a \in [lastUsed -> DOMAIN dets] :
               \A id \in lastUsed :
                  LET free == DOMAIN dets \ {a[p] : p \in {q \in lastUsed : q < id}}
                      best == {j \in free :
                                  /\ FracGT(IoU(id, j), min_overlap_ratio)
                                  /\ \A k \in free : ~FracGT(IoU(id, k), IoU(id, j))}
                  IN  /\ a[id] \in best
                      /\ \A j \in best : a[id] <= j
                      /\ vehicles[id].bbox = dets[a[id]]

(* id 0 at BoxC, detections BoxE then BoxA, both at IoU 1/2: id 0 takes BoxE  *)
(* and BoxA is registered as id 1                                            *)
C18_Witness ==
    /\ op = "tracker.update"
    /\ DOMAIN call.vehicle_bboxes = {0}
    /\ call.vehicle_bboxes[0] = BoxC
    /\ lastDets = <<BoxE, BoxA>>
    /\ FracEQ(calculate_overlap(BoxC, BoxE), calculate_overlap(BoxC, BoxA))
    /\ FracGT(calculate_overlap(BoxC, BoxE), min_overlap_ratio)
    /\ lastUsed = {0}
    /\ vehicles[0].bbox = BoxE
    /\ vehicles[1].bbox = BoxA

(* C19: an update with an empty detection list adds exactly 1 to disappeared  *)
(* of every existing identity, deletes the ones now over max_disappeared,     *)
(* registers nothing and leaves bbox, crossed_line and the next id alone.     *)
C19_EmptyFrameAgesEveryTrack ==
    [][op' = "tracker.update" /\ lastDets' = <<>> =>
          /\ exc' = "none"
          /\ next_vehicle_id' = next_vehicle_id
          /\ crossed_vehicles' = crossed_vehicles
          /\ lastUsed' = {}
          /\ DOMAIN vehicles' =
                {id \in DOMAIN vehicles : vehicles[id].disappeared + 1 <= max_disappeared}
          /\ \A id \in DOMAIN vehicles' :
                vehicles'[id] = [vehicles[id] EXCEPT !.disappeared = @ + 1]]_vars

C19_Witness ==
    /\ op = "tracker.update"
    /\ lastDets = <<>>
    /\ Deleted # {}
    /\ \E id \in DOMAIN vehicles :
          /\ vehicles[id].disappeared = 1
          /\ vehicles[id].crossed_line
          /\ id \in DOMAIN call.vehicle_bboxes
    /\ Count(DOMAIN call.vehicle_bboxes) > Count(DOMAIN vehicles)

(* C20: after update(detections, lineY) every object registered or matched   *)
(* in that call whose bbox.y + bbox.height >= lineY has crossed_line = true   *)
(* (equality included), and an object whose box was never at or past the line *)
(* at a check, on registration or on a match, has crossed_line = false.       *)
C20_CheckedOnRegistrationAndMatch ==
    op = "tracker.update" =>
        \A id \in DOMAIN vehicles :
            /\ (id \in lastUsed \/ id >= lastNext)
                  /\ Bottom(vehicles[id].bbox) >= call.detection_line_y
                    => vehicles[id].crossed_line
            /\ id \notin everPastLine => ~vehicles[id].crossed_line

(* one object matched with its bottom exactly on the line, another that was   *)
(* not matched in this call and is past this call's line without ever having *)
(* been checked against it                                                   *)
C20_Witness ==
    /\ op = "tracker.update"
    /\ \E id \in lastUsed :
          /\ Bottom(vehicles[id].bbox) = call.detection_line_y
          /\ Bottom(call.vehicle_bboxes[id]) < call.detection_line_y
          /\ vehicles[id].crossed_line
    /\ \E id \in DOMAIN vehicles \ lastUsed :
          /\ id < lastNext
          /\ Bottom(vehicles[id].bbox) >= call.detection_line_y
          /\ ~vehicles[id].crossed_line

(* the detections whose IoU with the bbox an identity had before the call is  *)
(* strictly greater than min_overlap_ratio                                    *)
Candidates(id) ==
    {j \in DOMAIN lastDets :
        FracGT(calculate_overlap(call.vehicle_bboxes[id], lastDets[j]), min_overlap_ratio)}

(* the size of a maximum matching of identities to their candidates *)
MaximumMatching ==
    LET olds == DOMAIN call.vehicle_bboxes
        Matchings == UNION {{a \in [S -> DOMAIN lastDets] :
                               /\ \A p, q \in S : p # q => a[p] # a[q]
                               /\ \A p \in S : a[p] \in Candidates(p)} :
                            S \in SUBSET olds}
    IN  CHOOSE n \in 0..Count(olds) :
           /\ \E a \in Matchings : Count(DOMAIN a) = n
           /\ \A a \in Matchings : Count(DOMAIN a) <= n

(* C21: the greedy matching never matches more identities than a maximum      *)
(* matching, and whenever it matches fewer, an identity with candidates is    *)
(* left unmatched (its bbox kept, disappeared > 0, or deleted) because every  *)
(* one of its candidates was claimed by an earlier-registered identity, and a *)
(* leftover detection is registered under a new id; such frames are reachable. *)
C21_GreedyNotOptimal ==
    op = "tracker.update" /\ DOMAIN call.vehicle_bboxes # {} /\ Len(lastDets) > 0 =>
        /\ Count(lastUsed) <= MaximumMatching
        /\ Count(lastUsed) < MaximumMatching =>
              /\ \E later \in DOMAIN call.vehicle_bboxes \ lastUsed :
                    /\ Candidates(later) # {}
                    /\ \A j \in Candidates(later) :
                          \E earlier \in lastUsed :
                             earlier < later /\ vehicles[earlier].bbox = lastDets[j]
                    /\ later \in DOMAIN vehicles =>
                          /\ vehicles[later].bbox = call.vehicle_bboxes[later]
                          /\ vehicles[later].disappeared > 0
              /\ \E new \in DOMAIN vehicles :
                    /\ new >= lastNext
                    /\ vehicles[new].bbox \in Range(lastDets)
              /\ Count({new \in DOMAIN vehicles : new >= lastNext})
                    = Len(lastDets) - Count(lastUsed)

(* id 0 at BoxC and id 1 at BoxB, detections BoxB then BoxA: id 0 takes BoxB  *)
(* (IoU 5/8 against 1/2 with BoxA), the only candidate of id 1, although      *)
(* 0 -> BoxA, 1 -> BoxB matches both; BoxA is registered as id 2              *)
C21_Witness ==
    /\ op = "tracker.update"
    /\ DOMAIN call.vehicle_bboxes = {0, 1}
    /\ call.vehicle_bboxes[0] = BoxC /\ call.vehicle_bboxes[1] = BoxB
    /\ lastDets = <<BoxB, BoxA>>
    /\ Candidates(0) = {1, 2} /\ Candidates(1) = {1}
    /\ MaximumMatching = 2
    /\ lastUsed = {0}
    /\ vehicles[0].bbox = BoxB
    /\ vehicles[1].bbox = BoxB /\ vehicles[1].disappeared = 1
    /\ lastNext = 2 /\ vehicles[2].bbox = BoxA

(* the centre of a box as SpeedCalculator.update computes it *)
Centre(bbox) == <<bbox[1] + (bbox[3] \div 2), bbox[2] + (bbox[4] \div 2)>>

(* C22: an update that returns records, for an identity with no history and   *)
(* no speed, exactly one sample (the centre of its box, the frame time) and   *)
(* an empty speed history, and leaves it out of the speed mapping; an         *)
(* identity enters the speed mapping only in an update whose frame time is    *)
(* strictly greater than the time of its previous sample.                     *)
C22_FirstSampleNoSpeed ==
    [][op' = "speed.update" /\ exc' = "none" =>
          \A id \in DOMAIN call'.vehicles :
              /\ id \notin DOMAIN vehicle_data /\ id \notin DOMAIN speeds =>
                    /\ vehicle_data'[id].positions = <<Centre(call'.vehicles[id].bbox)>>
                    /\ vehicle_data'[id].times = <<last_frame_time'>>
                    /\ vehicle_data'[id].speeds = <<>>
                    /\ id \notin DOMAIN speeds'
              /\ id \notin DOMAIN speeds /\ id \in DOMAIN speeds' =>
                    /\ id \in DOMAIN vehicle_data
                    /\ FracGT(last_frame_time', Last(vehicle_data[id].times))]_vars

(* one identity with its first sample and no speed, next to one that has a    *)
(* speed                                                                      *)
C22_Witness ==
    /\ op = "speed.update"
    /\ exc = "none"
    /\ \E id \in DOMAIN call.vehicles :
          /\ Len(vehicle_data[id].positions) = 1
          /\ vehicle_data[id].speeds = <<>>
          /\ id \notin DOMAIN speeds
    /\ \E id \in DOMAIN call.vehicles : id \in DOMAIN speeds

(* s[lo] + ... + s[hi] *)
RECURSIVE SumOf(_, _, _)
SumOf(s, lo, hi) ==
    IF lo > hi THEN Frac(0, 1) ELSE FracAdd(s[lo], SumOf(s, lo + 1, hi))

(* C23: after an update that computes a speed for an identity (its frame time *)
(* strictly after its previous sample), the speed stored for it, times        *)
(* k = min(5, n), is the sum of the last k of its n instantaneous speeds.     *)
C23_SmoothedIsMeanOfLastFive ==
    op = "speed.update" /\ exc = "none" =>
        \A id \in DOMAIN vehicle_data :
            LET d == vehicle_data[id]
                n == Len(d.speeds)
                t == Len(d.times)
                k == IF n < 5 THEN n ELSE 5
            IN  t >= 2 /\ FracGT(d.times[t], d.times[t - 1]) =>
                   /\ n >= 1
                   /\ id \in DOMAIN speeds
                   /\ FracEQ(FracMul(speeds[id], Frac(k, 1)), SumOf(d.speeds, n - k + 1, n))

(* six speeds, the first (20 px in 1/30 s, 21.6 km/h) outside the window of   *)
(* the five zeros that follow it                                              *)
C23_Witness ==
    /\ op = "speed.update"
    /\ exc = "none"
    /\ 0 \in DOMAIN vehicle_data
    /\ vehicle_data[0].speeds = <<Frac(108, 5), Frac(0, 1), Frac(0, 1), Frac(0, 1),
                                  Frac(0, 1), Frac(0, 1)>>
    /\ speeds[0] = Frac(0, 1)

FirstInWindow == CHOOSE i \in EventsInWindow : \A j \in EventsInWindow : i <= j
LastInWindow == CHOOSE i \in EventsInWindow : \A j \in EventsInWindow : j <= i
TimeDelta == count_history[LastInWindow][1] - count_history[FirstInWindow][1]
CountDelta == count_history[LastInWindow][2] - count_history[FirstInWindow][2]

(* C25: a rate query returns (countDelta / timeDelta) * 60 between the first  *)
(* and last events in the window when at least two are left and timeDelta is  *)
(* > 0; it returns 0 when none is left; in the remaining cases (one event, or *)
(* several with timeDelta <= 0) it returns (vehicle_count / window) * 60 for  *)
(* a window > 0 and 0 otherwise; it never divides by zero.                    *)
C25_RateQuery ==
    op = "counter.get_count_rate" =>
        LET k == Count(EventsInWindow)
            r == call.returned
        IN  /\ ~Raises(r)
            /\ k = 0 => r = Frac(0, 1)
            /\ k >= 2 /\ TimeDelta > 0 => r[1] * TimeDelta = CountDelta * 60 * r[2]
            /\ k >= 1 /\ ~(k >= 2 /\ TimeDelta > 0) =>
                  IF call.time_window > 0
                  THEN r[1] * call.time_window = vehicle_count * 60 * r[2]
                  ELSE r = Frac(0, 1)

(* C25 as stated: the delta rate whenever at least two events are left, the   *)
(* fallback whenever fewer than two are left, none included, and the window   *)
(* is positive, 0 otherwise                                                   *)
C25_RateQueryAsStated ==
    op = "counter.get_count_rate" =>
        LET k == Count(EventsInWindow)
            r == call.returned
        IN  /\ k >= 2 => TimeDelta # 0 /\ r[1] * TimeDelta = CountDelta * 60 * r[2]
            /\ k < 2 =>
                  IF call.time_window > 0
                  THEN r[1] * call.time_window = vehicle_count * 60 * r[2]
                  ELSE r = Frac(0, 1)

(* two vehicles counted, both events older than the window: the query         *)
(* returns 0, not 2 / 1 * 60                                                  *)
C25_Witness ==
    /\ op = "counter.get_count_rate"
    /\ vehicle_count = 2
    /\ Len(count_history) = 2
    /\ EventsInWindow = {}
    /\ call.time_window = 1
    /\ call.returned = Frac(0, 1)

(* C26: an identity not matched in a frame (disappeared > 0) is in the        *)
(* mapping Tracker.update returns, with the bbox it had before the call; the  *)
(* speed update of each such frame appends an instantaneous speed of 0, so    *)
(* the last `disappeared` speeds of its history are 0; and with               *)
(* max_disappeared >= 5 every identity deleted by the threshold has a         *)
(* retained speed of exactly 0.                                               *)
C26_RemovedIdentityRetainsZero ==
    /\ op = "tracker.update" =>
          \A id \in DOMAIN vehicles :
              vehicles[id].disappeared > 0 =>
                 /\ id \in DOMAIN call.vehicle_bboxes
                 /\ vehicles[id].bbox = call.vehicle_bboxes[id]
    /\ op = "speed.update" /\ exc = "none" =>
          \A id \in DOMAIN vehicles :
              LET missed == vehicles[id].disappeared
                  history == vehicle_data[id].speeds
              IN  missed > 0 =>
                     /\ Len(history) >= missed
                     /\ \A i \in (Len(history) - missed + 1)..Len(history) :
                           history[i] = Frac(0, 1)
    /\ max_disappeared >= 5 =>
          \A id \in Deleted : id \in DOMAIN speeds /\ speeds[id] = Frac(0, 1)

(* right after the update that deletes it: an identity that moved 2 px in its *)
(* second frame (2.16 km/h) and then went unmatched for six frames            *)
C26_Witness ==
    /\ op = "tracker.update"
    /\ max_disappeared = 5
    /\ \E id \in Deleted \cap DOMAIN vehicle_data :
          /\ vehicle_data[id].speeds = <<Frac(54, 25), Frac(0, 1), Frac(0, 1),
                                          Frac(0, 1), Frac(0, 1), Frac(0, 1)>>
          /\ speeds[id] = Frac(0, 1)

(* C27: after every update the live objects with disappeared = 0 are as many  *)
(* as the detections of the frame and correspond to them one to one: there is *)
(* an assignment of a detection to each such object that is its bbox, and no  *)
(* detection is assigned twice (none at all for an empty frame).              *)
C27_ActiveVehiclesAreTheDetections ==
    op = "tracker.update" =>
        LET active == DOMAIN get_active_vehicles
        IN  /\ exc = "none"
            /\ \A id \in DOMAIN vehicles : id \in active <=> vehicles[id].disappeared = 0
            /\ Count(active) = Len(lastDets)
            /\ \E f \in [active -> DOMAIN lastDets] :
                  /\ \A p, q \in active : p # q => f[p] # f[q]
                  /\ \A id \in active : vehicles[id].bbox = lastDets[f[id]]

(* a frame of two detections with three live objects: one matched, one left   *)
(* unmatched, one registered                                                  *)
C27_Witness ==
    /\ op = "tracker.update"
    /\ Len(lastDets) = 2
    /\ Count(DOMAIN vehicles) = 3
    /\ Count(DOMAIN get_active_vehicles) = 2
    /\ \E id \in lastUsed : vehicles[id].bbox # call.vehicle_bboxes[id]
    /\ \E id \in DOMAIN vehicles : vehicles[id].disappeared > 0
    /\ \E id \in DOMAIN vehicles : id >= lastNext

(* C28: the first update after a reset counts every identity of its mapping   *)
(* with crossed_line = true, the ones counted before the reset included: the  *)
(* count after it is the number of such identities in the mapping, each with  *)
(* one new event, whatever had been counted before the reset.                 *)
C28_RecountedAfterReset ==
    op = "counter.update" /\ call.after = "counter.reset" =>
        LET vs == call.vehicles
            crossed == {id \in DOMAIN vs : vs[id].crossed_line}
        IN  /\ \A id \in crossed \cap call.counted_before_reset : id \in counted_vehicles
            /\ counted_vehicles = crossed
            /\ vehicle_count = Count(crossed)
            /\ Len(count_history) = Count(crossed)

(* ids 0 and 1 counted, then a reset, then an update with the same two still  *)
(* live and crossed: the count is 2 again with no new crossing                *)
C28_Witness ==
    /\ op = "counter.update"
    /\ call.after = "counter.reset"
    /\ call.counted_before_reset = {0, 1}
    /\ DOMAIN call.vehicles = {0, 1}
    /\ counted_vehicles = {0, 1}
    /\ vehicle_count = 2

(* C29: when SpeedCalculator.update, fed the tracker's mapping once per       *)
(* frame, raises the ValueError, vehicle_data (positions, times and speeds of *)
(* every identity) and the speed mapping are as they were before the call.    *)
C29_FailedUpdateChangesNoHistory ==
    op = "speed.update" /\ exc = ValueError =>
        /\ vehicle_data = call.before.vehicle_data
        /\ speeds = call.before.speeds

(* a failed call on a mapping that holds an identity with a sample, which     *)
(* raises, and a larger one seen for the first time, which is not reached     *)
C29_Witness ==
    /\ op = "speed.update"
    /\ exc = ValueError
    /\ pixels_per_meter = None
    /\ \E known \in DOMAIN vehicles \cap DOMAIN vehicle_data :
          /\ Len(vehicle_data[known].positions) = 1
          /\ \E new \in DOMAIN vehicles \ DOMAIN vehicle_data : new > known

====
